---- MODULE Spec2Model ----
(***************************************************************************)
(* ModalDialog (src/unnamed/part_000, lines 57-246) and the way App.tsx    *)
(* drives it: one component instance, its props, its React hooks and the   *)
(* native <dialog> element it owns.                                        *)
(*                                                                         *)
(* An optional value (a prop that may be undefined) is a set with at most  *)
(* one element: {} is undefined, {v} is the value v.                       *)
(***************************************************************************)
EXTENDS Integers, Sequences, FiniteSets, TLC

VARIABLES
    phase,            \* "init" (element created), "mounted", "unmounted"
    props,            \* the props the ancestor passes at the next render
    uncontrolledOpen, \* useState(initialOpen), line 139
    syncDeps,         \* [isOpen] of the last run of the sync effect, line 161
    listenerEnv,      \* [shouldLightDismiss, setIsOpen] closed over by the listener effect, line 202
    facade,           \* the object useImperativeHandle last built, lines 205-231
    dialog,           \* the native <dialog>: open flag, listeners, queued close events
    onCloseCalls,     \* how often the onClose prop was invoked
    mustRender,       \* a discrete input event called a setter: React flushes before anything else
    openRequests,     \* open requests issued by the ancestor so far
    last,             \* the step that led here
    scenario,         \* observer of the scenario mount, showModal(), Escape
    outcome,          \* the event of the last step as its listeners left it, and the setIsOpen calls
    ancestorApplies   \* whether the ancestor's setIsOpen stores the value it is called with

vars == <<phase, props, uncontrolledOpen, syncDeps, listenerEnv, facade, dialog,
          onCloseCalls, mustRender, openRequests, last, scenario, outcome,
          ancestorApplies>>

\* ---------------------------------------------------------------- bounds

MaxOpenRequests == 2

\* --------------------------------------------------------------- helpers

\* a ?? b  (lines 143, 145)
Coalesce(opt, dflt) == IF opt = {} THEN dflt ELSE CHOOSE x \in opt : TRUE

\* setUncontrolledOpen, the setter useState returns (line 139)
setUncontrolledOpen == "setUncontrolledOpen"

\* the setter references an ancestor may pass as setIsOpen (App.tsx line 56)
ParentSetters == {"setIsOpen#1", "setIsOpen#2"}

\* ModalDialogIsOpenProps: isOpen and setIsOpen both set, or neither
ModalDialogIsOpenProps ==
    {[isOpen |-> {}, setIsOpen |-> {}]}
    \cup {[isOpen |-> {b}, setIsOpen |-> {s}] : b \in BOOLEAN, s \in ParentSetters}

\* ModalDialogProps, with the defaults of lines 121-122 applied
ModalDialogProps ==
    {[isOpen |-> c.isOpen, setIsOpen |-> c.setIsOpen,
      shouldLightDismiss |-> l, initialOpen |-> i] :
        c \in ModalDialogIsOpenProps, l \in BOOLEAN, i \in BOOLEAN}

\* isOpen computed as uncontrolledOpen || controlledOpen
IsOpenOfStoreFirst(p, u) == u \/ Coalesce(p.isOpen, u)

\* const isOpen = controlledOpen ?? uncontrolledOpen  (line 143)
IsOpenOf(p, u) == Coalesce(p.isOpen, u)

\* setIsOpen always the internal setter
SetIsOpenOfInternalOnly(p) == setUncontrolledOpen

\* const setIsOpen = setControlledOpen ?? setUncontrolledOpen  (line 145)
SetIsOpenOf(p) == Coalesce(p.setIsOpen, setUncontrolledOpen)

\* OpenState: the value of isOpen the next render computes
OpenState == IsOpenOf(props, uncontrolledOpen)

\* ------------------------------------------------------ the native dialog

NewDialog == [open |-> FALSE, listeners |-> <<>>, closeQueue |-> 0,
              closes |-> 0, faults |-> 0]

\* dialog.showModal(): throws when the dialog is already open (line 110)
dialogShowModal(d) ==
    IF d.open THEN [d EXCEPT !.faults = @ + 1]
              ELSE [d EXCEPT !.open = TRUE]

\* dialog.close(): nothing on a closed dialog; else closes and queues a close event
dialogClose(d) ==
    IF d.open THEN [d EXCEPT !.open = FALSE, !.closeQueue = @ + 1, !.closes = @ + 1]
              ELSE d

\* dialog.addEventListener(type, fn): fn is the closure of one effect run
addEventListener(d, l) == [d EXCEPT !.listeners = Append(@, l)]

RECURSIVE RemoveFirst(_, _)
RemoveFirst(s, l) ==
    IF s = <<>> THEN <<>>
    ELSE IF Head(s) = l THEN Tail(s)
    ELSE <<Head(s)>> \o RemoveFirst(Tail(s), l)

\* dialog.removeEventListener(type, fn)
removeEventListener(d, l) == [d EXCEPT !.listeners = RemoveFirst(@, l)]

\* ---------------------------------------------------------------- events

\* what an event's target can be: the dialog element itself (a click on its
\* ::backdrop), an element of its content, a <dialog> element nested in its
\* content, and a node that is no Element
TheDialog    == [name |-> "dialog", isElement |-> TRUE,  nodeName |-> "DIALOG", isDialogItself |-> TRUE]
ChildButton  == [name |-> "button", isElement |-> TRUE,  nodeName |-> "BUTTON", isDialogItself |-> FALSE]
NestedDialog == [name |-> "nested", isElement |-> TRUE,  nodeName |-> "DIALOG", isDialogItself |-> FALSE]
TextNode     == [name |-> "text",   isElement |-> FALSE, nodeName |-> "#text",  isDialogItself |-> FALSE]

Targets == {TheDialog, ChildButton, NestedDialog, TextNode}
Descendants == {ChildButton, NestedDialog, TextNode}

KeyCodes == {"Escape", "Enter"}

NewEvent(type, code, target) ==
    [type |-> type, code |-> code, target |-> target,
     defaultPrevented |-> FALSE, propagationStopped |-> FALSE]

\* what a handler did: the event as it left it, and its setIsOpen calls in order
Untouched(event) == [event |-> event, calls |-> <<>>]

\* handleClose without event.preventDefault()
handleCloseWithoutPreventDefault(event, setIsOpen) ==
    LET stopped == [event EXCEPT !.propagationStopped = TRUE]
    IN  [event |-> stopped,
         calls |-> <<[setter |-> setIsOpen, value |-> FALSE,
                      defaultPrevented |-> stopped.defaultPrevented,
                      propagationStopped |-> stopped.propagationStopped]>>]

\* handleClose calling setIsOpen(false) before it touches the event
handleCloseSetterFirst(event, setIsOpen) ==
    LET prevented == [event EXCEPT !.defaultPrevented = TRUE]
        stopped   == [prevented EXCEPT !.propagationStopped = TRUE]
    IN  [event |-> stopped,
         calls |-> <<[setter |-> setIsOpen, value |-> FALSE,
                      defaultPrevented |-> event.defaultPrevented,
                      propagationStopped |-> event.propagationStopped]>>]

\* function handleClose(event)  (lines 170-174)
handleClose(event, setIsOpen) ==
    LET prevented == [event EXCEPT !.defaultPrevented = TRUE]
        stopped   == [prevented EXCEPT !.propagationStopped = TRUE]
    IN  [event |-> stopped,
         calls |-> <<[setter |-> setIsOpen, value |-> FALSE,
                      defaultPrevented |-> stopped.defaultPrevented,
                      propagationStopped |-> stopped.propagationStopped]>>]

\* lightDismiss comparing nodeName with the lower-case tag name
lightDismissLowerCaseTag(event, setIsOpen) ==
    IF event.target.isElement /\ event.target.nodeName = "dialog"
    THEN handleClose(event, setIsOpen)
    ELSE Untouched(event)

\* function lightDismiss(event)  (lines 177-182)
lightDismiss(event, setIsOpen) ==
    IF event.target.isElement /\ event.target.nodeName = "DIALOG"
    THEN handleClose(event, setIsOpen)
    ELSE Untouched(event)

\* function closeOnEscape(event)  (lines 184-188)
closeOnEscape(event, setIsOpen) ==
    IF event.code = "Escape"
    THEN handleClose(event, setIsOpen)
    ELSE Untouched(event)

\* the two listeners one run of the listener effect creates (lines 191, 194)
ClickListener(setIsOpen)   == [type |-> "click",   fn |-> "lightDismiss",  setIsOpen |-> setIsOpen]
KeydownListener(setIsOpen) == [type |-> "keydown", fn |-> "closeOnEscape", setIsOpen |-> setIsOpen]

\* one listener of the dialog called with the event
CallListener(l, event) ==
    IF l.type # event.type THEN Untouched(event)
    ELSE IF l.fn = "lightDismiss" THEN lightDismiss(event, l.setIsOpen)
    ELSE closeOnEscape(event, l.setIsOpen)

\* the event dispatched to the dialog's listeners, in the order they were added
RECURSIVE Dispatch(_, _)
Dispatch(ls, r) ==
    IF ls = <<>> THEN r
    ELSE LET one == CallListener(Head(ls), r.event)
         IN  Dispatch(Tail(ls), [event |-> one.event, calls |-> r.calls \o one.calls])

\* the internal setter flipping the store instead of storing the value
CallSetterToggling(store, setter, value) ==
    IF setter = setUncontrolledOpen
    THEN [store EXCEPT !.uncontrolledOpen = ~@]
    ELSE IF store.applies
    THEN [store EXCEPT !.props.isOpen = {value}]
    ELSE store

\* setIsOpen(value): the internal store, or the ancestor's state (App.tsx line 7);
\* what the ancestor's function does with the value is the ancestor's choice
CallSetter(store, setter, value) ==
    IF setter = setUncontrolledOpen
    THEN [store EXCEPT !.uncontrolledOpen = value]
    ELSE IF store.applies
    THEN [store EXCEPT !.props.isOpen = {value}]
    ELSE store

RECURSIVE ApplyCalls(_, _)
ApplyCalls(store, calls) ==
    IF calls = <<>> THEN store
    ELSE ApplyCalls(CallSetter(store, Head(calls).setter, Head(calls).value), Tail(calls))

Store == [props |-> props, uncontrolledOpen |-> uncontrolledOpen,
          applies |-> ancestorApplies]

\* --------------------------------------------------------------- effects

\* safelyOpenDialogAsModal with the test of dialog.open inverted
safelyOpenDialogAsModalInverted(d) ==
    IF d.open THEN dialogShowModal(d) ELSE d

\* function safelyOpenDialogAsModal(dialog)  (lines 111-115)
safelyOpenDialogAsModal(d) ==
    IF ~d.open THEN dialogShowModal(d) ELSE d

\* the body of the sync effect (lines 149-155)
SyncEffectBody(d, isOpen) ==
    IF isOpen THEN safelyOpenDialogAsModal(d) ELSE dialogClose(d)

\* the sync effect without a cleanup
SyncEffectCleanupMissing(d) == d

\* the cleanup of the sync effect (lines 158-160)
SyncEffectCleanup(d) == dialogClose(d)

\* the sync effect written naively: no dependency list, no cleanup, and
\* dialog.showModal() called without looking at dialog.open
SyncEffectNaive(d, prevDeps, isOpen) ==
    IF isOpen THEN dialogShowModal(d) ELSE dialogClose(d)

\* the sync effect doing nothing on its first run
SyncEffectSkippingMount(d, prevDeps, isOpen) ==
    IF prevDeps = {} THEN d
    ELSE IF prevDeps # {isOpen} THEN SyncEffectBody(SyncEffectCleanup(d), isOpen)
    ELSE d

\* the sync effect as one render runs it: at mount the body; when isOpen
\* changed the cleanup of the last run, then the body; else nothing
SyncEffect(d, prevDeps, isOpen) ==
    IF prevDeps = {} THEN SyncEffectBody(d, isOpen)
    ELSE IF prevDeps # {isOpen} THEN SyncEffectBody(SyncEffectCleanup(d), isOpen)
    ELSE d

ListenerEnv(shouldLightDismiss, setIsOpen) ==
    [shouldLightDismiss |-> shouldLightDismiss, setIsOpen |-> setIsOpen]

\* the listener effect body with the keydown listener under the
\* shouldLightDismiss test as well
ListenerEffectBodyKeydownGated(d, env) ==
    IF env.shouldLightDismiss
    THEN addEventListener(addEventListener(d, ClickListener(env.setIsOpen)),
                          KeydownListener(env.setIsOpen))
    ELSE d

\* the listener effect body without the shouldLightDismiss test
ListenerEffectBodyClickAlways(d, env) ==
    addEventListener(addEventListener(d, ClickListener(env.setIsOpen)),
                     KeydownListener(env.setIsOpen))

\* the body of the listener effect (lines 190-194)
ListenerEffectBody(d, env) ==
    LET withClick == IF env.shouldLightDismiss
                     THEN addEventListener(d, ClickListener(env.setIsOpen))
                     ELSE d
    IN  addEventListener(withClick, KeydownListener(env.setIsOpen))

\* the listener effect cleanup removing the keydown listener only
ListenerEffectCleanupKeydownOnly(d, env) ==
    removeEventListener(d, KeydownListener(env.setIsOpen))

\* the cleanup of the listener effect (lines 196-201)
ListenerEffectCleanup(d, env) ==
    LET noClick == IF env.shouldLightDismiss
                   THEN removeEventListener(d, ClickListener(env.setIsOpen))
                   ELSE d
    IN  removeEventListener(noClick, KeydownListener(env.setIsOpen))

\* the listener effect with setIsOpen left out of its deps
ListenerEffectDepsWithoutSetter(d, prevEnv, env) ==
    IF prevEnv = {} THEN ListenerEffectBody(d, env)
    ELSE LET prev == CHOOSE e \in prevEnv : TRUE
         IN  IF prev.shouldLightDismiss # env.shouldLightDismiss
             THEN ListenerEffectBody(ListenerEffectCleanup(d, prev), env)
             ELSE d

\* the listener effect as one render runs it, deps [shouldLightDismiss, setIsOpen]
ListenerEffect(d, prevEnv, env) ==
    IF prevEnv = {} THEN ListenerEffectBody(d, env)
    ELSE IF prevEnv # {env}
         THEN ListenerEffectBody(ListenerEffectCleanup(d, CHOOSE e \in prevEnv : TRUE), env)
    ELSE d

\* useImperativeHandle with an empty dependency list
ImperativeHandleBuiltOnce(prevFacade, isOpen, setIsOpen) ==
    IF prevFacade = {}
    THEN {[isOpen |-> isOpen, setIsOpen |-> setIsOpen]}
    ELSE prevFacade

\* useImperativeHandle(forwardedRef, ..., [isOpen, setIsOpen])  (lines 205-231)
ImperativeHandle(prevFacade, isOpen, setIsOpen) ==
    IF prevFacade = {} \/ prevFacade # {[isOpen |-> isOpen, setIsOpen |-> setIsOpen]}
    THEN {[isOpen |-> isOpen, setIsOpen |-> setIsOpen]}
    ELSE prevFacade

\* the dialog rendered without the onClose prop
RenderedOnCloseNotPassed(calls) == calls

\* onClose invoked twice for one close event
RenderedOnCloseTwice(calls) == calls + 2

\* <dialog onClose={onClose}>: the close event reaches the onClose prop (line 236)
RenderedOnClose(calls) == calls + 1

\* -------------------------------------------------------------- observers

Step(act, arg, wasOpen) == [act |-> act, arg |-> arg, wasOpen |-> wasOpen]

\* the scenarios followed step by step; any step outside them leaves them:
\*   mount uncontrolled with initialOpen = false, facade showModal(), render,
\*     Escape, render, close event;
\*   the same mount, showModal() and close() before a render, then
\*     showModal() again and the render;
\*   mount uncontrolled with initialOpen = true, close() and showModal()
\*     before a render;
\*   a changed setIsOpen reference, its render, a dismissal gesture;
\*   a changed prop shape and its render
ScenarioNext(s, act, arg) ==
    IF      s = "mounted"   /\ act = "FacadeShowModal"              THEN "requested"
    ELSE IF s = "requested" /\ act = "Render"                       THEN "shown"
    ELSE IF s = "shown"     /\ act = "KeyDown" /\ arg = "Escape"    THEN "escaped"
    ELSE IF s = "escaped"   /\ act = "Render"                       THEN "hidden"
    ELSE IF s = "hidden"    /\ act = "FireCloseEvent"               THEN "notified"
    ELSE IF s = "requested" /\ act = "FacadeClose"                  THEN "batchedOpenClose"
    ELSE IF s = "batchedOpenClose" /\ act = "FacadeShowModal"       THEN "batchedOpenCloseOpen"
    ELSE IF s = "batchedOpenCloseOpen" /\ act = "Render"            THEN "batchSettledOpen"
    ELSE IF s = "mountedOpen" /\ act = "FacadeClose"                THEN "closeRequested"
    ELSE IF s = "closeRequested" /\ act = "FacadeShowModal"         THEN "batchedCloseOpen"
    ELSE IF act = "ParentChangeSetter"                              THEN "setterChanged"
    ELSE IF s = "setterChanged" /\ act = "Render"                   THEN "setterCommitted"
    ELSE IF s = "setterCommitted" /\ (\/ act = "KeyDown" /\ arg = "Escape"
                                      \/ act = "Click" /\ arg = "dialog")
                                                                    THEN "dismissedAfterSetterChange"
    ELSE IF act = "ParentSwitchMode"                                THEN "modeSwitched"
    ELSE IF s = "modeSwitched" /\ act = "Render"                    THEN "modeSwitchCommitted"
    ELSE "off"

\* a step that dispatched no event and called no setter
NoOutcome == [event |-> {}, calls |-> <<>>]

TrackOutcome(act, arg, o) ==
    /\ last' = Step(act, arg, dialog.open)
    /\ scenario' = ScenarioNext(scenario, act, arg)
    /\ outcome' = o

Track(act, arg) == TrackOutcome(act, arg, NoOutcome)

\* ------------------------------------------------------------------ state

Created ==
    /\ phase = "init"
    /\ props \in ModalDialogProps
    /\ uncontrolledOpen = FALSE
    /\ syncDeps = {}
    /\ listenerEnv = {}
    /\ facade = {}
    /\ dialog = NewDialog
    /\ onCloseCalls = 0
    /\ mustRender = FALSE
    /\ openRequests = 0
    /\ last = Step("Init", "", FALSE)
    /\ scenario = "off"
    /\ outcome = NoOutcome

\* the ancestor's setIsOpen is a state setter, as in App.tsx (lines 7, 56)
Init == Created /\ ancestorApplies = TRUE

\* the ancestor's setIsOpen may also be a function that drops the value
InitAnyAncestor == Created /\ ancestorApplies \in BOOLEAN

\* a render is due: some hook's dependencies differ from those of its last run
RenderNeeded ==
    \/ syncDeps # {OpenState}
    \/ listenerEnv # {ListenerEnv(props.shouldLightDismiss, SetIsOpenOf(props))}
    \/ facade # {[isOpen |-> OpenState, setIsOpen |-> SetIsOpenOf(props)]}

\* one render and commit of the component function (lines 119-245) with the
\* store as it is: the hooks in order, each effect run when its deps changed
Commit(u) ==
    LET isOpen    == IsOpenOf(props, u)
        setIsOpen == SetIsOpenOf(props)
        env       == ListenerEnv(props.shouldLightDismiss, setIsOpen)
        synced    == SyncEffect(dialog, syncDeps, isOpen)
    IN  /\ uncontrolledOpen' = u
        /\ dialog' = ListenerEffect(synced, listenerEnv, env)
        /\ syncDeps' = {isOpen}
        /\ listenerEnv' = {env}
        /\ facade' = ImperativeHandle(facade, isOpen, setIsOpen)
        /\ mustRender' = FALSE

\* the first render: useState(initialOpen) seeds the internal store (line 139)
Mount ==
    /\ phase = "init"
    /\ phase' = "mounted"
    /\ Commit(props.initialOpen)
    /\ last' = Step("Mount", "", FALSE)
    /\ scenario' = IF props.isOpen # {} THEN "off"
                   ELSE IF props.initialOpen THEN "mountedOpen" ELSE "mounted"
    /\ outcome' = NoOutcome
    /\ UNCHANGED <<props, onCloseCalls, openRequests, ancestorApplies>>

\* what the render about to commit does to light dismiss
LightDismissChange ==
    LET was == \E e \in listenerEnv : e.shouldLightDismiss
    IN  IF was /\ ~props.shouldLightDismiss THEN "lightDismissOff"
        ELSE IF ~was /\ props.shouldLightDismiss THEN "lightDismissOn"
        ELSE ""

\* a later render, after a state or prop change
Render ==
    /\ phase = "mounted"
    /\ mustRender \/ RenderNeeded
    /\ Commit(uncontrolledOpen)
    /\ Track("Render", LightDismissChange)
    /\ UNCHANGED <<phase, props, onCloseCalls, openRequests, ancestorApplies>>

\* unmount: the cleanup of every effect runs, the ref is cleared
Unmount ==
    /\ phase = "mounted"
    /\ ~mustRender
    /\ phase' = "unmounted"
    /\ dialog' = ListenerEffectCleanup(SyncEffectCleanup(dialog),
                                       CHOOSE e \in listenerEnv : TRUE)
    /\ facade' = {}
    /\ Track("Unmount", "")
    /\ UNCHANGED <<ancestorApplies, props, uncontrolledOpen, syncDeps, listenerEnv, onCloseCalls,
                   mustRender, openRequests>>

\* the store after the calls; a discrete event that called a setter is flushed next
Requested(calls, flush) ==
    LET after == ApplyCalls(Store, calls)
    IN  /\ props' = after.props
        /\ uncontrolledOpen' = after.uncontrolledOpen
        /\ mustRender' = (flush /\ calls # <<>>)

\* facade showModal(): setIsOpen(true)  (lines 210-212)
FacadeShowModal ==
    /\ phase = "mounted" /\ ~mustRender
    /\ openRequests < MaxOpenRequests
    /\ openRequests' = openRequests + 1
    /\ \E f \in facade :
         LET calls == <<[setter |-> f.setIsOpen, value |-> TRUE]>>
         IN  /\ Requested(calls, FALSE)
             /\ TrackOutcome("FacadeShowModal", "", [event |-> {}, calls |-> calls])
    /\ UNCHANGED <<ancestorApplies, phase, syncDeps, listenerEnv, facade, dialog, onCloseCalls>>

\* facade close(): setIsOpen(false)  (lines 207-209)
FacadeClose ==
    /\ phase = "mounted" /\ ~mustRender
    /\ \E f \in facade :
         LET calls == <<[setter |-> f.setIsOpen, value |-> FALSE]>>
         IN  /\ Requested(calls, FALSE)
             /\ TrackOutcome("FacadeClose", "", [event |-> {}, calls |-> calls])
    /\ UNCHANGED <<ancestorApplies, phase, syncDeps, listenerEnv, facade, dialog, onCloseCalls,
                   openRequests>>

\* the ancestor of a controlled instance sets its own state (App.tsx lines 18-24)
ParentSetIsOpen(value) ==
    /\ phase = "mounted" /\ ~mustRender
    /\ props.isOpen # {}
    /\ value => openRequests < MaxOpenRequests
    /\ openRequests' = IF value THEN openRequests + 1 ELSE openRequests
    /\ props' = [props EXCEPT !.isOpen = {value}]
    /\ Track("ParentSetIsOpen", IF value THEN "true" ELSE "false")
    /\ UNCHANGED <<ancestorApplies, phase, uncontrolledOpen, syncDeps, listenerEnv, facade, dialog,
                   onCloseCalls, mustRender>>

\* the ancestor re-renders with shouldLightDismiss toggled
ParentToggleLightDismiss ==
    /\ phase = "mounted" /\ ~mustRender
    /\ props' = [props EXCEPT !.shouldLightDismiss = ~@]
    /\ Track("ParentToggleLightDismiss", "")
    /\ UNCHANGED <<ancestorApplies, phase, uncontrolledOpen, syncDeps, listenerEnv, facade, dialog,
                   onCloseCalls, mustRender, openRequests>>

\* the ancestor of a controlled instance passes another setIsOpen reference
ParentChangeSetter(s) ==
    /\ phase = "mounted" /\ ~mustRender
    /\ props.setIsOpen # {} /\ props.setIsOpen # {s}
    /\ props' = [props EXCEPT !.setIsOpen = {s}]
    /\ Track("ParentChangeSetter", s)
    /\ UNCHANGED <<ancestorApplies, phase, uncontrolledOpen, syncDeps, listenerEnv, facade, dialog,
                   onCloseCalls, mustRender, openRequests>>

\* the ancestor re-renders with another initialOpen
ParentChangeInitialOpen ==
    /\ phase = "mounted" /\ ~mustRender
    /\ props' = [props EXCEPT !.initialOpen = ~@]
    /\ Track("ParentChangeInitialOpen", "")
    /\ UNCHANGED <<ancestorApplies, phase, uncontrolledOpen, syncDeps, listenerEnv, facade,
                   dialog, onCloseCalls, mustRender, openRequests>>

\* the ancestor re-renders with the other shape of ModalDialogIsOpenProps: both
\* props where it passed neither, or neither where it passed both; the props
\* arrive with the render, so nothing comes between the two
ParentSwitchMode(shape) ==
    /\ phase = "mounted" /\ ~mustRender
    /\ (shape.isOpen = {}) # (props.isOpen = {})
    /\ LET opens == IsOpenOf(shape, uncontrolledOpen) /\ ~OpenState
       IN  /\ opens => openRequests < MaxOpenRequests
           /\ openRequests' = IF opens THEN openRequests + 1 ELSE openRequests
    /\ props' = [props EXCEPT !.isOpen = shape.isOpen, !.setIsOpen = shape.setIsOpen]
    /\ mustRender' = TRUE
    /\ Track("ParentSwitchMode", IF shape.isOpen = {} THEN "uncontrolled" ELSE "controlled")
    /\ UNCHANGED <<ancestorApplies, phase, uncontrolledOpen, syncDeps, listenerEnv, facade,
                   dialog, onCloseCalls>>

\* a keydown event on the dialog: its listeners run; Escape left unprevented
\* lets the browser close an open modal dialog by itself
KeyDown(code) ==
    /\ phase = "mounted" /\ ~mustRender
    /\ LET r == Dispatch(dialog.listeners, Untouched(NewEvent("keydown", code, TheDialog)))
       IN  /\ Requested(r.calls, TRUE)
           /\ dialog' = IF code = "Escape" /\ ~r.event.defaultPrevented
                        THEN dialogClose(dialog) ELSE dialog
           /\ TrackOutcome("KeyDown", code, [event |-> {r.event}, calls |-> r.calls])
    /\ UNCHANGED <<ancestorApplies, phase, syncDeps, listenerEnv, facade, onCloseCalls, openRequests>>

\* a click event that reaches the dialog, its target the dialog or a descendant
Click(target) ==
    /\ phase = "mounted" /\ ~mustRender
    /\ LET r == Dispatch(dialog.listeners, Untouched(NewEvent("click", "", target)))
       IN  /\ Requested(r.calls, TRUE)
           /\ TrackOutcome("Click", target.name, [event |-> {r.event}, calls |-> r.calls])
    /\ UNCHANGED <<ancestorApplies, phase, syncDeps, listenerEnv, facade, dialog, onCloseCalls,
                   openRequests>>

\* the browser fires a queued close event; React calls onClose while mounted
FireCloseEvent ==
    /\ ~mustRender
    /\ dialog.closeQueue > 0
    /\ dialog' = [dialog EXCEPT !.closeQueue = @ - 1]
    /\ onCloseCalls' = IF phase = "mounted" THEN RenderedOnClose(onCloseCalls)
                       ELSE onCloseCalls
    /\ Track("FireCloseEvent", "")
    /\ UNCHANGED <<ancestorApplies, phase, props, uncontrolledOpen, syncDeps, listenerEnv, facade,
                   mustRender, openRequests>>

Next ==
    \/ Mount
    \/ Render
    \/ Unmount
    \/ FacadeShowModal
    \/ FacadeClose
    \/ \E v \in BOOLEAN : ParentSetIsOpen(v)
    \/ ParentToggleLightDismiss
    \/ \E s \in ParentSetters : ParentChangeSetter(s)
    \/ ParentChangeInitialOpen
    \/ \E shape \in ModalDialogIsOpenProps : ParentSwitchMode(shape)
    \/ \E c \in KeyCodes : KeyDown(c)
    \/ \E t \in Targets : Click(t)
    \/ FireCloseEvent

Spec == Init /\ [][Next]_vars

\* the event loop runs a due render and delivers every queued close event
FairSpec == Spec /\ WF_vars(Render) /\ SF_vars(FireCloseEvent)

\* the component under an ancestor whose setIsOpen applies the value or drops it
AncestorSpec == InitAnyAncestor /\ [][Next]_vars

\* ----------------------------------------------------------------- claims

\* the shouldLightDismiss value of the last committed render
CommittedLightDismiss == \E e \in listenerEnv : e.shouldLightDismiss

\* what facade isOpen() returns (lines 213-215)
FacadeIsOpen == \E f \in facade : f.isOpen

HasListener(type) == \E i \in 1..Len(dialog.listeners) : dialog.listeners[i].type = type

\* C1: on a mounted instance, once the sync effect has run for the current
\* OpenState (and so after every render), the native open status equals
\* OpenState; while they differ a reconciliation is pending.
C1_OpenStateMatchesNative ==
    phase = "mounted" =>
        /\ syncDeps = {OpenState} => dialog.open = OpenState
        /\ last.act \in {"Mount", "Render"} => dialog.open = OpenState
        /\ dialog.open # OpenState => RenderNeeded

C1_Witness ==
    /\ phase = "mounted" /\ last.act = "Render"
    /\ dialog.open /\ OpenState
    /\ dialog.closes > 0

\* C2: the native showModal() is never issued on a dialog that is already
\* open: the native "already open" fault never occurs.
C2_NoNativeOpenWhileOpen == dialog.faults = 0

C2_Witness ==
    /\ phase = "mounted"
    /\ last = Step("FacadeShowModal", "", TRUE)
    /\ dialog.open /\ OpenState /\ ~RenderNeeded

\* C3: uncontrolled, initialOpen = false: after showModal() and its render
\* the dialog is open and isOpen() is true; after a following Escape and its
\* render the dialog is closed, isOpen() is false and one close event is
\* queued; once it fires onClose has been invoked exactly once.
C3_ShowModalThenEscape ==
    /\ scenario = "shown" => dialog.open /\ FacadeIsOpen
    /\ scenario = "hidden" =>
          ~dialog.open /\ ~FacadeIsOpen /\ onCloseCalls = 0 /\ dialog.closeQueue = 1
    /\ scenario = "notified" =>
          ~dialog.open /\ ~FacadeIsOpen /\ onCloseCalls = 1 /\ dialog.closeQueue = 0

C3_Witness == scenario = "notified" /\ onCloseCalls = 1

EscapeOnOpenDialog == last = Step("KeyDown", "Escape", TRUE)

OnCloseInvoked == last.act = "FireCloseEvent" /\ phase = "mounted"

\* C4: a keydown listener is installed in every mounted state, whatever
\* shouldLightDismiss is; Escape on an open dialog sets OpenState to false and,
\* unless the instance is unmounted first, onClose is invoked afterwards.
C4_EscapeAlwaysCloses ==
    /\ [](phase = "mounted" => HasListener("keydown"))
    /\ [](EscapeOnOpenDialog => ~OpenState /\ mustRender)
    /\ (EscapeOnOpenDialog ~> (OnCloseInvoked \/ phase = "unmounted"))

C4_Witness == EscapeOnOpenDialog /\ ~CommittedLightDismiss /\ ~OpenState /\ dialog.open

BackdropClickOnOpenDialog == last = Step("Click", "dialog", TRUE)

\* C5: with shouldLightDismiss = true, a click whose target is the dialog
\* element, on an open dialog, sets OpenState to false and, unless the
\* instance is unmounted first, onClose is invoked afterwards.
C5_BackdropClickCloses ==
    /\ [](BackdropClickOnOpenDialog /\ CommittedLightDismiss => ~OpenState /\ mustRender)
    /\ ((BackdropClickOnOpenDialog /\ CommittedLightDismiss)
            ~> (OnCloseInvoked \/ phase = "unmounted"))

C5_Witness ==
    BackdropClickOnOpenDialog /\ CommittedLightDismiss /\ ~OpenState /\ dialog.open

\* C6: with shouldLightDismiss = false no click listener is attached, and a
\* click whose target is the dialog element changes neither OpenState nor the
\* native dialog nor the number of onClose invocations.
C6_BackdropClickInertWithoutLightDismiss ==
    /\ [](phase = "mounted" /\ ~CommittedLightDismiss => ~HasListener("click"))
    /\ [][(last'.act = "Click" /\ last'.arg = "dialog" /\ ~CommittedLightDismiss)
            => /\ UNCHANGED <<props, uncontrolledOpen, dialog, onCloseCalls>>
               /\ ~mustRender']_vars

C6_Witness ==
    /\ BackdropClickOnOpenDialog /\ ~CommittedLightDismiss
    /\ dialog.open /\ OpenState /\ ~mustRender

\* C7: a click on an open dialog whose target is a descendant of the dialog
\* never triggers dismissal: OpenState is unchanged and no close request is
\* issued.
C7_DescendantClickNeverDismisses ==
    [][(last'.act = "Click" /\ last'.arg \in {t.name : t \in Descendants} /\ dialog.open)
        => UNCHANGED <<props, uncontrolledOpen>> /\ ~mustRender']_vars

\* C8: after unmount the native dialog is closed, whatever OpenState is.
C8_UnmountClosesNative == phase = "unmounted" => ~dialog.open

C8_Witness ==
    /\ phase = "unmounted" /\ last = Step("Unmount", "", TRUE)
    /\ props.isOpen = {TRUE} /\ openRequests = 0
    /\ dialog.closes = 1 /\ ~dialog.open

\* C9: while mounted, every open-to-closed transition of the native dialog
\* has produced exactly one onClose invocation or one close event still
\* queued, and a queued close event is delivered.
C9_OnCloseOncePerClose ==
    /\ [](phase = "mounted" => onCloseCalls + dialog.closeQueue = dialog.closes)
    /\ ((phase = "mounted" /\ dialog.closeQueue > 0)
            ~> (OnCloseInvoked \/ phase = "unmounted"))

C9_Witness ==
    /\ phase = "mounted" /\ last.act = "FireCloseEvent"
    /\ onCloseCalls = 2 /\ dialog.closes = 2 /\ dialog.closeQueue = 0

\* C10: the native open status changes only in a step of the reconciler (the
\* sync effect run by mount or render, or its cleanup at unmount); the facade
\* calls, a handled click and a handled Escape leave it as it is.
C10_NativeChangesOnlyInReconciler ==
    [][dialog'.open # dialog.open => last'.act \in {"Mount", "Render", "Unmount"}]_vars

C10_Witness ==
    /\ EscapeOnOpenDialog /\ dialog.open /\ ~OpenState /\ mustRender

CountListeners(type) ==
    Cardinality({i \in 1..Len(dialog.listeners) : dialog.listeners[i].type = type})

\* C12: the render that takes shouldLightDismiss from true to false leaves no
\* click listener on the dialog, and a click on the dialog element right after
\* it changes nothing.
C12_ToggleOffRemovesClickListener ==
    /\ [](last.act = "Render" /\ last.arg = "lightDismissOff" => CountListeners("click") = 0)
    /\ [][(/\ last.act = "Render" /\ last.arg = "lightDismissOff"
           /\ last'.act = "Click" /\ last'.arg = "dialog")
            => /\ UNCHANGED <<props, uncontrolledOpen, dialog, onCloseCalls>>
               /\ ~mustRender']_vars

C12_Witness ==
    /\ last = Step("Render", "lightDismissOff", TRUE)
    /\ dialog.open /\ OpenState /\ CountListeners("click") = 0

\* C13: while mounted the dialog carries exactly one keydown listener, and one
\* click listener if and only if the committed shouldLightDismiss is true, all
\* bound to the committed setter, which after a render is the current one; a
\* dismissal gesture after a changed setter was rendered calls that setter
\* once and no other; after unmount no listener is left.
C13_ListenersMatchCurrentRender ==
    /\ phase = "mounted" =>
          \A e \in listenerEnv :
              /\ CountListeners("keydown") = 1
              /\ CountListeners("click") = IF e.shouldLightDismiss THEN 1 ELSE 0
              /\ \A i \in 1..Len(dialog.listeners) :
                    dialog.listeners[i].setIsOpen = e.setIsOpen
    /\ phase = "mounted" /\ last.act \in {"Mount", "Render"} =>
          listenerEnv = {ListenerEnv(props.shouldLightDismiss, SetIsOpenOf(props))}
    /\ scenario = "dismissedAfterSetterChange" /\ (last.act = "KeyDown" \/ CommittedLightDismiss) =>
          /\ Len(outcome.calls) = 1
          /\ {outcome.calls[1].setter} = props.setIsOpen
    /\ phase = "unmounted" => dialog.listeners = <<>>

C13_Witness ==
    /\ scenario = "dismissedAfterSetterChange"
    /\ last = Step("Click", "dialog", TRUE)
    /\ CommittedLightDismiss /\ Len(outcome.calls) = 1

Controlled == props.isOpen # {}

RequestSteps == {"KeyDown", "Click", "FacadeShowModal", "FacadeClose"}

\* C14: in controlled mode a dismissal gesture or a facade call leaves the
\* internal store alone and calls only a setter the ancestor supplied, with
\* false for a gesture and close() and true for showModal(); when the ancestor
\* drops the value, OpenState and the native open status stay as they were,
\* through the request and, with no other change pending, through the render
\* after it.
C14_ControlledOnlyRequests ==
    /\ [][(Controlled /\ last'.act \in RequestSteps)
            => /\ uncontrolledOpen' = uncontrolledOpen
               /\ \A i \in 1..Len(outcome'.calls) :
                     /\ outcome'.calls[i].setter \in ParentSetters
                     /\ outcome'.calls[i].value = (last'.act = "FacadeShowModal")
               /\ ~ancestorApplies => /\ OpenState' = OpenState
                                       /\ dialog'.open = dialog.open]_vars
    /\ [][(/\ Controlled /\ ~ancestorApplies /\ syncDeps = {OpenState}
           /\ last.act \in RequestSteps /\ last'.act = "Render")
            => dialog'.open = dialog.open /\ OpenState' = OpenState]_vars

C14_Witness ==
    /\ Controlled /\ ~ancestorApplies
    /\ last = Step("KeyDown", "Escape", TRUE)
    /\ dialog.open /\ OpenState /\ mustRender
    /\ Len(outcome.calls) = 1

\* C15 as claimed: from mount to unmount the instance stays in the mode it was
\* mounted in, and value and setter are never of different owners.
C15_OneModeForLifetime ==
    /\ [][(phase = "mounted" /\ phase' = "mounted") => (Controlled' = Controlled)]_vars
    /\ [](Controlled <=> props.setIsOpen # {})

\* C15, amended: in every committed render the value and the setter are both
\* the ancestor's or both internal, and the mode changes only when the
\* ancestor itself passes the other prop shape.
C15_ModeNeverMixed ==
    /\ [](Controlled <=> props.setIsOpen # {})
    /\ [](phase = "mounted" /\ last.act \in {"Mount", "Render"} =>
            /\ \A f \in facade : Controlled <=> f.setIsOpen # setUncontrolledOpen
            /\ \A e \in listenerEnv : Controlled <=> e.setIsOpen # setUncontrolledOpen
            /\ \A i \in 1..Len(dialog.listeners) :
                  Controlled <=> dialog.listeners[i].setIsOpen # setUncontrolledOpen)
    /\ [][Controlled' # Controlled => last'.act = "ParentSwitchMode"]_vars

C15_Witness ==
    /\ scenario = "modeSwitchCommitted" /\ ~Controlled
    /\ \A f \in facade : f.setIsOpen = setUncontrolledOpen
    /\ dialog.open /\ OpenState

\* C16: in controlled mode OpenState is the isOpen prop whatever initialOpen
\* is, and a render with isOpen = false leaves the dialog closed; uncontrolled,
\* OpenState is initialOpen at mount, and neither a changed initialOpen prop nor
\* the render after it changes OpenState.
C16_InitialOpenOnlySeeds ==
    /\ [](phase = "mounted" /\ Controlled => props.isOpen = {OpenState})
    /\ [](phase = "mounted" /\ Controlled /\ last.act \in {"Mount", "Render"}
            => dialog.open = OpenState)
    /\ [](last.act = "Mount" /\ ~Controlled => OpenState = props.initialOpen)
    /\ [][last'.act = "ParentChangeInitialOpen" => OpenState' = OpenState]_vars
    /\ [][last'.act = "Render" => OpenState' = OpenState]_vars

C16_Witness ==
    /\ phase = "mounted" /\ last.act = "Mount"
    /\ props.isOpen = {FALSE} /\ props.initialOpen
    /\ ~OpenState /\ ~dialog.open /\ uncontrolledOpen

\* C17: right after mount the native dialog is open if and only if the initial
\* OpenState (isOpen when controlled, else initialOpen) is true; no open
\* request was needed and nothing was closed or faulted.
C17_MountReconciles ==
    last.act = "Mount" =>
        /\ dialog.open = (IF Controlled THEN props.isOpen = {TRUE} ELSE props.initialOpen)
        /\ openRequests = 0 /\ dialog.closes = 0 /\ dialog.faults = 0

C17_Witness ==
    /\ last.act = "Mount" /\ ~Controlled /\ props.initialOpen
    /\ dialog.open /\ openRequests = 0

GestureSteps == {"KeyDown", "Click"}

\* C18: whenever a listener of the component calls setIsOpen, the event's
\* default action is already prevented and its propagation already stopped,
\* the value is false, and the native open status does not change in that
\* step.
C18_SuppressedBeforeRequest ==
    /\ [](last.act \in GestureSteps =>
            \A i \in 1..Len(outcome.calls) :
                /\ outcome.calls[i].defaultPrevented
                /\ outcome.calls[i].propagationStopped
                /\ outcome.calls[i].value = FALSE)
    /\ [][(last'.act \in GestureSteps /\ outcome'.calls # <<>>)
            => dialog'.open = dialog.open]_vars

C18_Witness ==
    /\ last = Step("Click", "dialog", TRUE)
    /\ Len(outcome.calls) = 1
    /\ outcome.calls[1].defaultPrevented /\ outcome.calls[1].propagationStopped
    /\ dialog.open

NativeUntouched ==
    /\ dialog.closes = 0 /\ dialog.closeQueue = 0 /\ dialog.faults = 0
    /\ onCloseCalls = 0

\* C19: uncontrolled, after a facade call OpenState is the value that call
\* asked for, whatever was requested before it; showModal() then close()
\* before a render on a closed dialog, and close() then showModal() on an open
\* one, leave no render due, the native dialog as it was and onClose not
\* invoked; showModal(), close(), showModal() and the one render open the
\* dialog once.
C19_BatchedRequests ==
    /\ phase = "mounted" /\ ~Controlled /\ last.act = "FacadeShowModal" => OpenState
    /\ phase = "mounted" /\ ~Controlled /\ last.act = "FacadeClose" => ~OpenState
    /\ scenario = "batchedOpenClose" =>
          ~OpenState /\ ~dialog.open /\ ~RenderNeeded /\ NativeUntouched
    /\ scenario = "batchedCloseOpen" =>
          OpenState /\ dialog.open /\ ~RenderNeeded /\ NativeUntouched
    /\ scenario = "batchedOpenCloseOpen" => OpenState /\ ~dialog.open /\ NativeUntouched
    /\ scenario = "batchSettledOpen" => OpenState /\ dialog.open /\ NativeUntouched

C19_Witness ==
    /\ scenario = "batchedOpenClose" /\ last = Step("FacadeClose", "", FALSE)
    /\ openRequests = 1 /\ ~OpenState /\ ~dialog.open

Unhandled ==
    /\ outcome.calls = <<>>
    /\ \A e \in outcome.event : ~e.defaultPrevented /\ ~e.propagationStopped

\* C20: a click whose target is not the dialog element, and a keydown whose
\* code is not Escape, leave the event unprevented and unstopped and call no
\* setter.
C20_OtherEventsUntouched ==
    /\ last.act = "Click" /\ last.arg # TheDialog.name => Unhandled
    /\ last.act = "KeyDown" /\ last.arg # "Escape" => Unhandled

====
